---- MODULE Spec2Model ----
(***************************************************************************)
(* CloudRunPy: the Connection dispatcher, the Request builder and the      *)
(* Response snapshot of src/CloudRunPy.py as a state machine.              *)
(*                                                                         *)
(* Every public method is one action.  The transport (requests.post) is    *)
(* the environment: each dispatch draws one transport behaviour `tr`,      *)
(* either an exception raised by the POST or a completed HTTP exchange.    *)
(* Python objects that can be aliased (the header dictionary of a          *)
(* transport result, the class-level Request.data dictionary) live in      *)
(* variables of their own and are referred to by address.                  *)
(***************************************************************************)
EXTENDS Integers, Sequences, FiniteSets, TLC

VARIABLES
    conn,          \* the Connection object: its instance and class attributes
    requests,      \* the Request instances constructed so far (instance __dict__)
    Request_data,  \* the dictionary bound to the class attribute Request.data
    files,         \* the file objects handed to setDataFromFile
    posted,        \* the requests.post invocations made by the latest call
    raw,           \* the transport result object of the latest dispatch
    heap,          \* header dictionaries, by address
    resp,          \* the Response object built by the latest dispatch
    last           \* the latest operation: its name, arguments and outcome

vars == <<conn, requests, Request_data, files, posted, raw, heap, resp, last>>

-----------------------------------------------------------------------------
(* Bounds of the model.                                                    *)

MaxRequests == 2   \* Request instances built in SpecRequest
MaxPrepared == 1   \* Request instances built for the dispatcher in Spec
MaxFiles == 1      \* file objects opened in SpecRequest

Modules == {"echo", "sum"}
Handlers == {"request", "status"}
Tokens == {"", "t0k3n"}
Names == {"x", "y"}

-----------------------------------------------------------------------------
(* JSON values, tagged by their Python type.                               *)

JInt(i) == [t |-> "int", i |-> i]
JStr(s) == [t |-> "str", s |-> s]
JObj(o) == [t |-> "dict", o |-> o]
JArr(a) == [t |-> "list", a |-> a]

EmptyDict == [k \in {} |-> JInt(0)]

Digit == <<"0", "1", "2", "3", "4", "5", "6", "7", "8", "9">>

RECURSIVE NatToStr(_)
NatToStr(n) ==
    IF n < 10 THEN Digit[n + 1]
    ELSE NatToStr(n \div 10) \o Digit[(n % 10) + 1]

IntToStr(n) == IF n < 0 THEN "-" \o NatToStr(-n) ELSE NatToStr(n)

\* Python's str() on the scalars a server puts into error.code / error.message.
str(v) == IF v.t = "int" THEN IntToStr(v.i) ELSE v.s

-----------------------------------------------------------------------------
(* base64.standard_b64encode(...).decode('ascii') on a sequence of bytes.  *)

B64Alphabet ==
    <<"A","B","C","D","E","F","G","H","I","J","K","L","M","N","O","P",
      "Q","R","S","T","U","V","W","X","Y","Z","a","b","c","d","e","f",
      "g","h","i","j","k","l","m","n","o","p","q","r","s","t","u","v",
      "w","x","y","z","0","1","2","3","4","5","6","7","8","9","+","/">>

B64Char(i) == B64Alphabet[i + 1]

RECURSIVE standard_b64encode(_)
standard_b64encode(b) ==
    IF Len(b) = 0 THEN ""
    ELSE IF Len(b) = 1 THEN
        LET n == b[1] * 65536
        IN  B64Char(n \div 262144) \o B64Char((n \div 4096) % 64) \o "=="
    ELSE IF Len(b) = 2 THEN
        LET n == b[1] * 65536 + b[2] * 256
        IN  B64Char(n \div 262144) \o B64Char((n \div 4096) % 64)
              \o B64Char((n \div 64) % 64) \o "="
    ELSE
        LET n == b[1] * 65536 + b[2] * 256 + b[3]
        IN  B64Char(n \div 262144) \o B64Char((n \div 4096) % 64)
              \o B64Char((n \div 64) % 64) \o B64Char(n % 64)
              \o standard_b64encode(SubSeq(b, 4, Len(b)))

-----------------------------------------------------------------------------
(* The transport: what one requests.post call does.                        *)

NoContent == [t |-> "none"]
Text(s) == [t |-> "text", s |-> s]      \* a body that is not JSON
Json(doc) == [t |-> "json", doc |-> doc] \* the serialisation of a JSON document

ErrObj(code, message) == JObj([code |-> code, message |-> message])

Documents ==
    { JObj([result |-> JStr("ok")]),
      JObj([error |-> ErrObj(JInt(42), JStr("bad token"))]),
      JObj([error |-> ErrObj(JStr("42"), JStr("bad token"))]),
      JObj([error |-> ErrObj(JInt(7), JStr("denied")), result |-> JStr("ok")]),
      JObj([error |-> JObj([code |-> JInt(42)])]),
      JObj([error |-> JStr("oops")]),
      JArr(<<JStr("ok")>>) }

Bodies == {Text("<html>")} \cup {Json(d) : d \in Documents}

StatusCodes == {200, 304, 404}

HeaderMaps == {("Content-Type" :> "application/json")}

TransportExceptions == {"Timeout", "ConnectionError", "SSLError"}

\* A transport behaviour: the POST raises `exc`, or (exc = "None") completes
\* with a status code, headers and a body.
Raising(e) == [exc |-> e, status_code |-> 0, headers |-> [k \in {} |-> ""],
               content |-> NoContent]
Completed(sc, h, c) == [exc |-> "None", status_code |-> sc, headers |-> h,
                        content |-> c]

Transports ==
    {Raising(e) : e \in TransportExceptions}
      \cup {Completed(sc, h, c) : sc \in StatusCodes, h \in HeaderMaps, c \in Bodies}

\* Python exception objects: the class, the constructor arguments and the
\* instance attributes set besides them.
Exc(type, args) == [type |-> type, args |-> args, fields |-> [k \in {} |-> JInt(0)]]
NoExc == Exc("None", <<>>)

\* The requests.Response object and the address of its header dictionary.
RawAddr == "requests.Response.headers"
NoAddr == "None"
NoRaw == [exists |-> FALSE, status_code |-> 0, headers |-> NoAddr, content |-> NoContent]
RawOf(tr) == [exists |-> TRUE, status_code |-> tr.status_code, headers |-> RawAddr,
              content |-> tr.content]

\* Variant: the status code is never examined.
raise_for_status_never(req) == FALSE

\* req.raise_for_status(): HTTPError for the client and server error codes.
raise_for_status(req) == 400 <= req.status_code /\ req.status_code < 600

\* req.json(): the decoded document; a body that is not JSON raises ValueError.
json_fails(req) == req.content.t # "json"
json(req) == req.content.doc

\* Python's `'error' in answer`: key membership on a dict, element membership
\* on a list, TypeError on an int.
in_raises(answer) == answer.t = "int"
error_in(answer) ==
    CASE answer.t = "dict" -> "error" \in DOMAIN answer.o
      [] answer.t = "list" -> \E i \in 1..Len(answer.a) : answer.a[i] = JStr("error")
      [] OTHER -> FALSE

\* answer['error']['code'] and answer['error']['message'] on a dict `answer`
\* holding the key 'error': indexing a str with a str is a TypeError, a
\* missing key a KeyError.
subscript_exc(answer) ==
    LET e == answer.o["error"]
    IN  IF e.t # "dict" THEN "TypeError"
        ELSE IF "code" \notin DOMAIN e.o THEN "KeyError"
        ELSE IF "message" \notin DOMAIN e.o THEN "KeyError"
        ELSE "None"

\* Variant: code and message change places in the text.
CloudRunErrorMessage_swapped(answer) ==
    "Error " \o str(answer.o["error"].o["message"]) \o ": "
             \o str(answer.o["error"].o["code"])

CloudRunErrorMessage(answer) ==
    "Error " \o str(answer.o["error"].o["code"]) \o ": "
             \o str(answer.o["error"].o["message"])

-----------------------------------------------------------------------------
(* Connection.                                                             *)

Connection__init__(url, port, token) ==
    [url |-> url, port |-> port, token |-> token,
     verifySSL |-> TRUE, timeout |-> 60, auth |-> "None", proxies |-> "None"]

\* The argument list of the one requests.post call of __request.
PostCall(c, handler, payload) ==
    [url |-> c.url \o ":" \o IntToStr(c.port) \o "/" \o handler \o "/",
     json |-> payload, verify |-> c.verifySSL, timeout |-> c.timeout,
     auth |-> c.auth, proxies |-> c.proxies]

\* What Connection.__request did: the POST calls made, how often the body was
\* decoded, and the exception raised or the transport result returned.
Outcome(calls, decoded, exc, returned) ==
    [posted |-> calls, jsonCalls |-> decoded, exc |-> exc, returned |-> returned]

\* Lines 46-53 of __request, after the POST made the `calls`: the status
\* check, the decoding and the search for the error entry.
Classify(calls, tr) ==
    LET req == RawOf(tr)
    IN  IF tr.exc # "None" THEN Outcome(calls, 0, Exc(tr.exc, <<>>), FALSE)
        ELSE IF raise_for_status(req) THEN Outcome(calls, 0, Exc("HTTPError", <<>>), FALSE)
        ELSE IF json_fails(req) THEN Outcome(calls, 1, Exc("ValueError", <<>>), FALSE)
        ELSE IF in_raises(json(req)) THEN Outcome(calls, 1, Exc("TypeError", <<>>), FALSE)
        ELSE IF error_in(json(req)) THEN
            IF json(req).t # "dict" THEN Outcome(calls, 1, Exc("TypeError", <<>>), FALSE)
            ELSE IF subscript_exc(json(req)) # "None"
                 THEN Outcome(calls, 1, Exc(subscript_exc(json(req)), <<>>), FALSE)
            ELSE Outcome(calls, 1,
                         Exc("CloudRunError", <<CloudRunErrorMessage(json(req))>>), FALSE)
        ELSE Outcome(calls, 1, NoExc, TRUE)

\* Variant: a POST that raised is tried a second time.
Connection__request_retry(c, handler, payload, tr) ==
    LET call == PostCall(c, handler, payload)
    IN  Classify(IF tr.exc # "None" THEN <<call, call>> ELSE <<call>>, tr)

Connection__request(c, handler, payload, tr) ==
    Classify(<<PostCall(c, handler, payload)>>, tr)

-----------------------------------------------------------------------------
(* Response.                                                               *)

NoResp == [exists |-> FALSE, raw |-> NoAddr, response |-> [t |-> "none"],
           status_code |-> 0, headers |-> NoAddr]

EmptyHeap == [a \in {} |-> [k \in {} |-> ""]]

\* Variant: the header dictionary is copied into a dictionary of its own.
Response__init__copy(response, h) ==
    [obj |-> [exists |-> TRUE, raw |-> "requests.Response",
              response |-> json(response),
              status_code |-> response.status_code,
              headers |-> "Response.headers"],
     heap |-> ("Response.headers" :> h[response.headers]) @@ h]

\* Variant: the headers attribute is never bound.
Response__init__noHeaders(response, h) ==
    [obj |-> [exists |-> TRUE, raw |-> "requests.Response",
              response |-> json(response),
              status_code |-> response.status_code,
              headers |-> NoAddr],
     heap |-> h]

\* Response.__init__(response) with the heap `h` it runs in: the object built
\* and the heap afterwards.  `raw` and `headers` are references, `response`
\* is the freshly decoded document and `status_code` an int.
Response__init__(response, h) ==
    [obj |-> [exists |-> TRUE, raw |-> "requests.Response",
              response |-> json(response),
              status_code |-> response.status_code,
              headers |-> response.headers],
     heap |-> h]

-----------------------------------------------------------------------------
(* The send* entry points, as functions of the Connection, the arguments   *)
(* and the transport behaviour.                                            *)

NotInvoked == Raising("NotInvoked")

\* `req = self.__request(...)` followed by `return Response(req)`.
ReturnResponse(out, tr) ==
    IF out.returned THEN
        LET r == Response__init__(RawOf(tr), (RawAddr :> tr.headers))
        IN  [posted |-> out.posted, jsonCalls |-> out.jsonCalls + 1, exc |-> NoExc,
             made |-> 1, resp |-> r.obj, heap |-> r.heap, raw |-> RawOf(tr), tr |-> tr]
    ELSE
        [posted |-> out.posted, jsonCalls |-> out.jsonCalls, exc |-> out.exc,
         made |-> 0, resp |-> NoResp, heap |-> EmptyHeap, raw |-> NoRaw, tr |-> tr]

sendRequest(c, module, data, tr) ==
    LET payload == [token |-> c.token, module |-> module, data |-> data]
    IN  ReturnResponse(Connection__request(c, "request", payload, tr), tr)

\* Variant: the custom envelope carries a module entry as well.
sendCustomRequest_withModule(c, handler, data, tr) ==
    LET payload == [token |-> c.token, module |-> handler, data |-> data]
    IN  ReturnResponse(Connection__request(c, handler, payload, tr), tr)

sendCustomRequest(c, handler, data, tr) ==
    LET payload == [token |-> c.token, data |-> data]
    IN  ReturnResponse(Connection__request(c, handler, payload, tr), tr)

\* Arguments of sendPreparedRequest: a Request instance, or a plain dict.
RequestArg(r) == [type |-> "Request", id |-> r]
DictArg == [type |-> "dict", id |-> 0]

\* Attribute lookup on a Request instance: the instance __dict__ first, then
\* the class attribute.
Request_getdata(r) ==
    IF "data" \in DOMAIN requests[r] THEN requests[r].data ELSE Request_data

\* Variant: the type of the argument is not looked at before sending.
sendPreparedRequest_unchecked(c, request, tr) ==
    IF request.type = "Request"
    THEN sendRequest(c, requests[request.id].module, Request_getdata(request.id), tr)
    ELSE sendRequest(c, "", EmptyDict, tr)

\* Variant: the data of the prepared request are left behind.
sendPreparedRequest_noData(c, request, tr) ==
    IF request.type = "Request"
    THEN sendRequest(c, requests[request.id].module, EmptyDict, tr)
    ELSE [posted |-> <<>>, jsonCalls |-> 0,
          exc |-> Exc("ValueError", <<"request has to be a Request object">>),
          made |-> 0, resp |-> NoResp, heap |-> EmptyHeap, raw |-> NoRaw,
          tr |-> NotInvoked]

sendPreparedRequest(c, request, tr) ==
    IF request.type = "Request"
    THEN sendRequest(c, requests[request.id].module, Request_getdata(request.id), tr)
    ELSE [posted |-> <<>>, jsonCalls |-> 0,
          exc |-> Exc("ValueError", <<"request has to be a Request object">>),
          made |-> 0, resp |-> NoResp, heap |-> EmptyHeap, raw |-> NoRaw,
          tr |-> NotInvoked]

-----------------------------------------------------------------------------
(* Actions.                                                                *)

Log(op, arg, tr, exc, jsonCalls, made) ==
    [op |-> op, arg |-> arg, tr |-> tr, exc |-> exc,
     jsonCalls |-> jsonCalls, made |-> made]

NoArg == [none |-> TRUE]

Init ==
    /\ conn \in {Connection__init__("https://cloud.example", 8443, t) : t \in Tokens}
    /\ requests = <<>>
    /\ Request_data = EmptyDict
    /\ files = <<>>
    /\ posted = <<>>
    /\ raw = NoRaw
    /\ heap = EmptyHeap
    /\ resp = NoResp
    /\ last = Log("Connection", NoArg, NotInvoked, NoExc, 0, 0)

\* The caller learns the result `res` of a send* call.
Dispatch(op, arg, res) ==
    /\ posted' = res.posted
    /\ raw' = res.raw
    /\ heap' = res.heap
    /\ resp' = res.resp
    /\ last' = Log(op, arg, res.tr, res.exc, res.jsonCalls, res.made)
    /\ UNCHANGED <<conn, requests, Request_data, files>>

SendRequest(module, data, tr) ==
    Dispatch("sendRequest", [module |-> module, data |-> data],
             sendRequest(conn, module, data, tr))

SendPreparedRequest(request, tr) ==
    Dispatch("sendPreparedRequest", request, sendPreparedRequest(conn, request, tr))

SendCustomRequest(handler, data, tr) ==
    Dispatch("sendCustomRequest", [handler |-> handler, data |-> data],
             sendCustomRequest(conn, handler, data, tr))

\* conn.token = t, between calls.
SetToken(t) ==
    /\ conn' = [conn EXCEPT !.token = t]
    /\ last' = Log("token", [token |-> t], NotInvoked, NoExc, 0, 0)
    /\ UNCHANGED <<requests, Request_data, files, posted, raw, heap, resp>>

\* The holder of the raw transport result changes its header dictionary in
\* place (response.raw.headers[k] = v).
MutateRawHeaders(k, v) ==
    /\ raw.exists
    /\ heap' = [heap EXCEPT ![raw.headers] = (k :> v) @@ @]
    /\ last' = [last EXCEPT !.op = "raw.headers"]
    /\ UNCHANGED <<conn, requests, Request_data, files, posted, raw, resp>>

\* The holder of the raw transport result replaces its body.
MutateRawContent(c) ==
    /\ raw.exists
    /\ raw' = [raw EXCEPT !.content = c]
    /\ last' = [last EXCEPT !.op = "raw.content"]
    /\ UNCHANGED <<conn, requests, Request_data, files, posted, heap, resp>>

-----------------------------------------------------------------------------
(* Request.                                                                *)

Values == {JInt(1), JStr("a")}
DirectData == {EmptyDict, ("x" :> JInt(1))}

FileContents == {<<>>, <<77>>, <<77, 97>>, <<77, 97, 110, 255>>}

\* File objects as open() returns them: opened in binary mode ("rb"), in
\* text mode ("r"), or on a device whose read fails ("rb", broken).
FileObjs ==
    {[mode |-> "rb", broken |-> FALSE, content |-> c, closed |-> FALSE] : c \in FileContents}
      \cup {[mode |-> "r", broken |-> FALSE, content |-> <<77>>, closed |-> FALSE],
            [mode |-> "rb", broken |-> TRUE, content |-> <<>>, closed |-> FALSE]}

\* The exception `base64.standard_b64encode(file.read())` ends with.
read_encode_exc(f) ==
    IF f.closed THEN "ValueError"          \* I/O operation on closed file
    ELSE IF f.broken THEN "OSError"
    ELSE IF f.mode # "rb" THEN "TypeError" \* a bytes-like object is required
    ELSE "None"

\* Request.__init__(module): binds self.module, nothing else.
Request__init__(module) == [module |-> module]

NewRequest(module) ==
    /\ Len(requests) < MaxRequests
    /\ requests' = Append(requests, Request__init__(module))
    /\ last' = Log("Request", [module |-> module], NotInvoked, NoExc, 0, 0)
    /\ UNCHANGED <<conn, Request_data, files, posted, raw, heap, resp>>

\* self.data[name] = value on the dictionary self.data resolves to.
SetItem(r, name, value) ==
    IF "data" \in DOMAIN requests[r]
    THEN /\ requests' = [requests EXCEPT ![r].data = (name :> value) @@ @]
         /\ UNCHANGED Request_data
    ELSE /\ Request_data' = (name :> value) @@ Request_data
         /\ UNCHANGED requests

SetData(r, name, value) ==
    /\ SetItem(r, name, value)
    /\ last' = Log("setData", [r |-> r, name |-> name, value |-> value],
                   NotInvoked, NoExc, 0, 0)
    /\ UNCHANGED <<conn, files, posted, raw, heap, resp>>

OpenFile(f) ==
    /\ Len(files) < MaxFiles
    /\ files' = Append(files, f)
    /\ last' = Log("open", [file |-> Len(files) + 1], NotInvoked, NoExc, 0, 0)
    /\ UNCHANGED <<conn, requests, Request_data, posted, raw, heap, resp>>

SetDataFromFile(r, name, file) ==
    LET f == files[file]
        e == read_encode_exc(f)
        arg == [r |-> r, name |-> name, file |-> file]
    IN  /\ IF e # "None"
           THEN /\ last' = Log("setDataFromFile", arg, NotInvoked, Exc(e, <<>>), 0, 0)
                /\ UNCHANGED <<requests, Request_data, files>>
           ELSE /\ SetItem(r, name, JStr(standard_b64encode(f.content)))
                /\ files' = [files EXCEPT ![file].closed = TRUE]
                /\ last' = Log("setDataFromFile", arg, NotInvoked, NoExc, 0, 0)
        /\ UNCHANGED <<conn, posted, raw, heap, resp>>

Without(d, name) == [k \in DOMAIN d \ {name} |-> d[k]]

RemoveData(r, name) ==
    LET d == Request_getdata(r)
        arg == [r |-> r, name |-> name]
    IN  /\ IF name \notin DOMAIN d
           THEN /\ last' = Log("removeData", arg, NotInvoked, Exc("KeyError", <<name>>), 0, 0)
                /\ UNCHANGED <<requests, Request_data>>
           ELSE /\ last' = Log("removeData", arg, NotInvoked, NoExc, 0, 0)
                /\ IF "data" \in DOMAIN requests[r]
                   THEN /\ requests' = [requests EXCEPT ![r].data = Without(@, name)]
                        /\ UNCHANGED Request_data
                   ELSE /\ Request_data' = Without(Request_data, name)
                        /\ UNCHANGED requests
        /\ UNCHANGED <<conn, files, posted, raw, heap, resp>>

ClearData(r) ==
    /\ IF "data" \in DOMAIN requests[r]
       THEN /\ requests' = [requests EXCEPT ![r].data = EmptyDict]
            /\ UNCHANGED Request_data
       ELSE /\ Request_data' = EmptyDict
            /\ UNCHANGED requests
    /\ last' = Log("clearData", [r |-> r], NotInvoked, NoExc, 0, 0)
    /\ UNCHANGED <<conn, files, posted, raw, heap, resp>>

-----------------------------------------------------------------------------
(* Specifications.                                                         *)

Instances == 1..Len(requests)

\* The dispatcher, with the prepared requests it is given.
PreparedNames == {"x"}
PreparedValues == {JStr("a")}

Next ==
    \/ \E t \in Tokens : SetToken(t)
    \/ \E m \in Modules : Len(requests) < MaxPrepared /\ NewRequest(m)
    \/ \E r \in Instances, n \in PreparedNames, v \in PreparedValues : SetData(r, n, v)
    \/ \E m \in Modules, d \in DirectData, tr \in Transports : SendRequest(m, d, tr)
    \/ \E q \in {RequestArg(r) : r \in Instances} \cup {DictArg}, tr \in Transports :
          SendPreparedRequest(q, tr)
    \/ \E h \in Handlers, d \in DirectData, tr \in Transports : SendCustomRequest(h, d, tr)

Spec == Init /\ [][Next]_vars

\* A Response and the holder of the raw transport result it wraps.
NextResponse ==
    \/ \E m \in Modules, tr \in Transports : SendRequest(m, EmptyDict, tr)
    \/ \E h \in Handlers, tr \in Transports : SendCustomRequest(h, EmptyDict, tr)
    \/ \E v \in {"text/plain", "application/json"} : MutateRawHeaders("Content-Type", v)
    \/ \E c \in Bodies : MutateRawContent(c)

SpecResponse == Init /\ [][NextResponse]_vars

\* The request builder on its own.
NextRequest ==
    \/ \E f \in FileObjs : OpenFile(f)
    \/ \E m \in Modules : NewRequest(m)
    \/ \E r \in Instances, n \in Names, v \in Values : SetData(r, n, v)
    \/ \E r \in Instances, n \in Names, f \in 1..Len(files) : SetDataFromFile(r, n, f)
    \/ \E r \in Instances, n \in Names : RemoveData(r, n)
    \/ \E r \in Instances : ClearData(r)

SpecRequest == Init /\ [][NextRequest]_vars

-----------------------------------------------------------------------------
(* Vocabulary of the properties.                                           *)

SendOps == {"sendRequest", "sendPreparedRequest", "sendCustomRequest"}
BuilderOps == {"setData", "setDataFromFile", "removeData", "clearData"}

IsSend == last.op \in SendOps

\* The call got past the check of its arguments.
Validated == last.op = "sendPreparedRequest" => last.arg.type = "Request"

\* The transport completed the exchange with a 2xx status.
Succeeded(tr) == tr.exc = "None" /\ 200 <= tr.status_code /\ tr.status_code < 300

\* The transport completed the exchange and the body decodes as JSON.
Decodes(tr) == tr.exc = "None" /\ tr.content.t = "json"

\* The error marker of the wire protocol: an `error` object with `code` and
\* `message`.
HasErrorMarker(doc) ==
    /\ doc.t = "dict"
    /\ "error" \in DOMAIN doc.o
    /\ doc.o["error"].t = "dict"
    /\ {"code", "message"} \subseteq DOMAIN doc.o["error"].o

\* A JSON object without an `error` key, or an array without the string "error".
NoErrorEntry(doc) ==
    \/ doc.t = "dict" /\ "error" \notin DOMAIN doc.o
    \/ doc.t = "list" /\ \A i \in 1..Len(doc.a) : doc.a[i] # JStr("error")

NoResponseBuilt == last.made = 0 /\ ~resp.exists

\* The headers seen through the Response object.
ResponseHeaders == heap[resp.headers]

-----------------------------------------------------------------------------
(* C1 *)

\* C1 (as claimed): a setData / setDataFromFile / removeData / clearData call
\* on one Request leaves the data map of every other Request unchanged, and
\* a freshly constructed Request has an empty data map.
DataAfter(q) ==
    IF "data" \in DOMAIN requests'[q] THEN requests'[q].data ELSE Request_data'

C1_RequestsIsolated ==
    [][ /\ (last'.op \in BuilderOps =>
              \A q \in Instances \ {last'.arg.r} :
                  DataAfter(q) = Request_getdata(q))
        /\ (last'.op = "Request" => DataAfter(Len(requests')) = EmptyDict) ]_vars

-----------------------------------------------------------------------------
(* C2 *)

\* C2 (as claimed): a send* call whose transport succeeds with a body holding
\* the error marker fails with an error whose structured fields `code` and
\* `message` equal the server's error.code and error.message, and no
\* Response is built.
C2_StructuredProtocolError ==
    (IsSend /\ Succeeded(last.tr) /\ Decodes(last.tr)
       /\ HasErrorMarker(last.tr.content.doc)) =>
        LET e == last.tr.content.doc.o["error"].o
        IN  /\ last.exc.type = "CloudRunError"
            /\ {"code", "message"} \subseteq DOMAIN last.exc.fields
            /\ last.exc.fields["code"] = e["code"]
            /\ last.exc.fields["message"] = e["message"]
            /\ NoResponseBuilt

\* C2 (amended): such a call fails with a CloudRunError whose only argument
\* is the text "Error <code>: <message>" made of str(error.code) and
\* str(error.message); the error has no code or message field of its own;
\* no Response is built.
C2_FormattedProtocolError ==
    (IsSend /\ Succeeded(last.tr) /\ Decodes(last.tr)
       /\ HasErrorMarker(last.tr.content.doc)) =>
        LET e == last.tr.content.doc.o["error"].o
        IN  /\ last.exc.type = "CloudRunError"
            /\ Len(last.exc.args) = 1
            /\ last.exc.args[1] = "Error " \o str(e["code"]) \o ": " \o str(e["message"])
            /\ (e["code"] \in {JInt(42), JStr("42")} /\ e["message"] = JStr("bad token")
                  => last.exc.args[1] = "Error 42: bad token")
            /\ DOMAIN last.exc.fields = {}
            /\ NoResponseBuilt

C2_Witness ==
    /\ last.op = "sendCustomRequest"
    /\ last.tr.status_code = 200
    /\ last.exc.type = "CloudRunError"
    /\ last.exc.args = <<"Error 7: denied">>

-----------------------------------------------------------------------------
(* C3 *)

\* What a successful send* call hands back: a Response with the whole
\* document, the status code and the headers of the transport result.
ReturnsResponseOf(tr) ==
    /\ last.exc = NoExc
    /\ last.made = 1
    /\ resp.exists
    /\ resp.response = tr.content.doc
    /\ resp.status_code = tr.status_code
    /\ resp.headers \in DOMAIN heap
    /\ ResponseHeaders = tr.headers

\* C3 (as claimed): a send* call whose transport succeeds with a JSON body
\* that does not hold the error marker returns a Response with that body,
\* status code and headers, and raises nothing.
C3_ResponseWithoutMarker ==
    (IsSend /\ Succeeded(last.tr) /\ Decodes(last.tr)
       /\ ~HasErrorMarker(last.tr.content.doc)) => ReturnsResponseOf(last.tr)

\* C3 (amended): a send* call whose transport succeeds with a JSON object
\* that has no top-level `error` key (or a JSON array that does not hold the
\* string "error") returns a Response with that body, status code and
\* headers, and raises nothing.
C3_ResponseWithoutErrorKey ==
    (IsSend /\ Succeeded(last.tr) /\ Decodes(last.tr)
       /\ NoErrorEntry(last.tr.content.doc)) => ReturnsResponseOf(last.tr)

C3_Witness ==
    /\ last.op = "sendRequest"
    /\ last.tr.status_code = 200
    /\ resp.exists
    /\ resp.response = JObj([result |-> JStr("ok")])
    /\ resp.status_code = 200

-----------------------------------------------------------------------------
(* C4 *)

\* C4: sendPreparedRequest with an argument that is not a Request fails with
\* ValueError and the transport is not invoked during the call.
C4_TypeCheckBeforeNetwork ==
    (last.op = "sendPreparedRequest" /\ last.arg.type # "Request") =>
        /\ last.exc.type = "ValueError"
        /\ posted = <<>>
        /\ last.tr = NotInvoked
        /\ NoResponseBuilt

C4_Witness ==
    /\ last.op = "sendPreparedRequest"
    /\ last.arg = DictArg
    /\ last.exc.type = "ValueError"

-----------------------------------------------------------------------------
(* C5 *)

ConnectivityErrors == TransportExceptions \cup {"HTTPError"}

FailsWithoutDecoding ==
    /\ last.exc.type \in ConnectivityErrors
    /\ last.jsonCalls = 0
    /\ NoResponseBuilt

\* C5 (as claimed): when the transport raises or answers with a status that
\* is not 2xx, the call fails with a connectivity error, the body is never
\* decoded, and neither a Response nor a CloudRunError is produced.
C5_Non2xxIsFailure ==
    (IsSend /\ Validated /\ ~Succeeded(last.tr)) => FailsWithoutDecoding

\* C5 (amended): when the transport raises or answers with a status from 400
\* to 599, the call fails with the transport's error or an HTTPError, the
\* body is never decoded, and neither a Response nor a CloudRunError is
\* produced; a status outside 400..599 is not a failure.
C5_ErrorStatusIsFailure ==
    (IsSend /\ Validated
       /\ (last.tr.exc # "None"
             \/ (400 <= last.tr.status_code /\ last.tr.status_code < 600))) =>
        /\ FailsWithoutDecoding
        /\ (last.tr.exc # "None" => last.exc.type = last.tr.exc)
        /\ (last.tr.exc = "None" => last.exc.type = "HTTPError")

C5_Witness ==
    /\ last.op = "sendRequest"
    /\ last.tr.status_code = 404
    /\ Decodes(last.tr)
    /\ HasErrorMarker(last.tr.content.doc)
    /\ last.exc.type = "HTTPError"

-----------------------------------------------------------------------------
(* C6 *)

\* C6: a send* call that passes the check of its arguments invokes the
\* transport exactly once, whatever the outcome, and leaves every field of
\* the Connection unchanged.
C6_OneRoundTripNoMutation ==
    [][ (last'.op \in SendOps
           /\ (last'.op = "sendPreparedRequest" => last'.arg.type = "Request")) =>
          /\ Len(posted') = 1
          /\ conn' = conn ]_vars

C6_Witness ==
    /\ last.op = "sendCustomRequest"
    /\ last.tr.exc = "Timeout"
    /\ last.exc.type = "Timeout"
    /\ Len(posted) = 1

-----------------------------------------------------------------------------
(* C7 *)

UrlOf(handler) == conn.url \o ":8443/" \o handler \o "/"

\* C7: sendRequest(module, data) posts to the handler "request" an envelope
\* with exactly the keys token, module, data, holding the Connection's
\* current token and the arguments verbatim; sendCustomRequest(handler,
\* data) posts to the given handler an envelope with exactly the keys token
\* and data.
C7_Envelope ==
    /\ last.op = "sendRequest" =>
          /\ Len(posted) = 1
          /\ posted[1].url = UrlOf("request")
          /\ DOMAIN posted[1].json = {"token", "module", "data"}
          /\ posted[1].json["token"] = conn.token
          /\ posted[1].json["module"] = last.arg.module
          /\ posted[1].json["data"] = last.arg.data
    /\ last.op = "sendCustomRequest" =>
          /\ Len(posted) = 1
          /\ posted[1].url = UrlOf(last.arg.handler)
          /\ DOMAIN posted[1].json = {"token", "data"}
          /\ posted[1].json["token"] = conn.token
          /\ posted[1].json["data"] = last.arg.data

C7_Witness ==
    /\ last.op = "sendCustomRequest"
    /\ last.arg.handler = "status"
    /\ posted = <<[url |-> "https://cloud.example:8443/status/",
                   json |-> [token |-> "t0k3n", data |-> ("x" :> JInt(1))],
                   verify |-> TRUE, timeout |-> 60,
                   auth |-> "None", proxies |-> "None"]>>

-----------------------------------------------------------------------------
(* C8 *)

\* C8 (as claimed): after setDataFromFile(name, file) returns, the file is
\* closed, both when the call succeeds (the field then holds the encoded
\* content) and when it fails.
C8_FileClosedAfterCall ==
    last.op = "setDataFromFile" =>
        /\ files[last.arg.file].closed
        /\ (last.exc = NoExc =>
              /\ last.arg.name \in DOMAIN Request_getdata(last.arg.r)
              /\ Request_getdata(last.arg.r)[last.arg.name]
                   = JStr(standard_b64encode(files[last.arg.file].content)))

-----------------------------------------------------------------------------
(* C9 *)

\* C9: sendPreparedRequest(r) on a Request r does what sendRequest(r.module,
\* r.data) does with the same transport behaviour (same call to the
\* transport, same Response or error) and leaves r's module and data as
\* they were.
C9_PreparedIsSendRequest ==
    [][ (last'.op = "sendPreparedRequest" /\ last'.arg.type = "Request") =>
          LET r == last'.arg.id
              direct == sendRequest(conn, requests[r].module, Request_getdata(r),
                                    last'.tr)
          IN  /\ posted' = direct.posted
              /\ posted'[1].url = UrlOf("request")
              /\ posted'[1].json = [token |-> conn.token,
                                    module |-> requests[r].module,
                                    data |-> Request_getdata(r)]
              /\ resp' = direct.resp
              /\ heap' = direct.heap
              /\ last'.exc = direct.exc
              /\ requests' = requests
              /\ Request_data' = Request_data ]_vars

C9_Witness ==
    /\ last.op = "sendPreparedRequest"
    /\ last.arg.type = "Request"
    /\ Len(posted) = 1
    /\ posted[1].json["module"] = "sum"
    /\ posted[1].json["data"] = ("x" :> JStr("a"))
    /\ resp.exists

-----------------------------------------------------------------------------
(* C10 *)

\* C10 (as claimed): the Response keeps the decoded body, the status code
\* and the headers it was built with, whatever is later done to the raw
\* transport result's headers or body.
C10_ResponseIsSnapshot ==
    resp.exists =>
        /\ resp.response = last.tr.content.doc
        /\ resp.status_code = last.tr.status_code
        /\ ResponseHeaders = last.tr.headers

\* C10 (amended): the Response keeps the decoded body and the status code it
\* was built with, whatever is later done to the raw transport result; its
\* headers are the raw result's own header dictionary, so that a change made
\* to that dictionary in place shows through the Response.
C10_BodySnapshotHeadersShared ==
    resp.exists =>
        /\ resp.response = last.tr.content.doc
        /\ resp.status_code = last.tr.status_code
        /\ raw.exists
        /\ resp.headers = raw.headers
        /\ ResponseHeaders = heap[raw.headers]

C10_Witness ==
    /\ resp.exists
    /\ last.op = "raw.headers"
    /\ ResponseHeaders # last.tr.headers
    /\ raw.content # last.tr.content
    /\ resp.response = last.tr.content.doc

====
